---- MODULE Spec2Model ----
(***************************************************************************)
(* Model of sarima.py: a Streamlit script that is executed top to bottom   *)
(* on every interaction.  One execution of the script is one run.  The     *)
(* script's globals live in a namespace that is created afresh for each    *)
(* execution, so nothing the script binds survives into the next run.      *)
(*                                                                         *)
(* Library calls (chardet, pandas, statsmodels, streamlit) are modelled by *)
(* what they return to the script; where the value depends on numerical    *)
(* estimation (the SARIMAX fit and its forecast) the result is chosen      *)
(* nondeterministically from a bounded pool.                               *)
(***************************************************************************)
EXTENDS Integers, Sequences, FiniteSets, TLC

VARIABLES
    pc,              \* position in the script
    stage,           \* pipeline state of the current run
    executed,        \* script steps executed so far in the current run
    namespace,       \* names bound in the script's globals in this run
    uploaded_file,   \* value returned by st.file_uploader: <<>> or <<file>>
    detected,        \* detected['encoding'] (line 18)
    encoding,        \* `encoding` (line 19)
    df,              \* `df` (lines 23-34)
    monthly_sales,   \* `monthly_sales` (lines 37-38)
    forecast_index,  \* `forecast_index` (line 51)
    forecast_values, \* `forecast_values` (line 52): a Series, labels and values
    conf_int,        \* `conf_int` (line 53): rows of <<column 0, column 1>>
    forecast_df,     \* `forecast_df` (line 57)
    band,            \* what the forecast plot draws (lines 64-65)
    display,         \* elements written to the page in the current run
    message,         \* what the st.error call of the current run says
    uncaught,        \* exception that left the script without being caught
    exported         \* arguments of st.download_button: <<>> or <<payload>>

vars == <<pc, stage, executed, namespace, uploaded_file, detected, encoding, df,
          monthly_sales, forecast_index, forecast_values, conf_int, forecast_df,
          band, display, message, uncaught, exported>>

\* Python's None for names; an absent value of a structured type is written
\* as the empty tuple.
None == "None"
NaT == <<>>
NaN == <<>>

----------------------------------------------------------------------------
\* Bounds of the model

MaxRows == 3          \* data rows in an uploaded file
MaxSideRows == 1      \* data rows in files that exercise encoding or schema
MaxSe == 1            \* largest standard error per step a forecast reports, in units of 5

----------------------------------------------------------------------------
\* Program constants

forecast_steps == 12
required_cols == {"ORDERDATE", "SALES"}
Fallback == "ISO-8859-1"
Unreliable == {"johab", None}

----------------------------------------------------------------------------
\* Generic helpers

RECURSIVE SeqsUpTo(_, _)
SeqsUpTo(S, n) ==
    IF n = 0 THEN {<<>>}
    ELSE LET shorter == SeqsUpTo(S, n - 1)
         IN  shorter \cup {Append(s, x) : s \in {t \in shorter : Len(t) = n - 1}, x \in S}

Range(s) == {s[i] : i \in DOMAIN s}

\* Dates are <<year, month, day>>; they compare as timestamps do.
DateLess(a, b) ==
    \/ a[1] < b[1]
    \/ a[1] = b[1] /\ a[2] < b[2]
    \/ a[1] = b[1] /\ a[2] = b[2] /\ a[3] < b[3]

IsLeap(y) == (y % 4 = 0 /\ y % 100 # 0) \/ y % 400 = 0

DaysInMonth(y, m) ==
    IF m = 2 THEN (IF IsLeap(y) THEN 29 ELSE 28)
    ELSE IF m \in {4, 6, 9, 11} THEN 30 ELSE 31

----------------------------------------------------------------------------
\* Inputs: the files a user can upload

\* ORDERDATE cells are written <<y, m, d>>; <<2023, 2, 30>> is no calendar
\* date and <<0, 0, 0>> stands for free text such as "N/A".
RowPool ==
    { [ORDERDATE |-> <<2023, 1, 5>>,   SALES |-> 100],
      [ORDERDATE |-> <<2023, 1, 20>>,  SALES |-> 50],
      [ORDERDATE |-> <<2023, 2, 1>>,   SALES |-> 200],
      [ORDERDATE |-> <<2023, 3, 10>>,  SALES |-> 50],
      [ORDERDATE |-> <<2024, 12, 15>>, SALES |-> 100],
      [ORDERDATE |-> <<2023, 2, 30>>,  SALES |-> 100],
      [ORDERDATE |-> <<0, 0, 0>>,      SALES |-> 50] }

ColumnSets ==
    { {"ORDERDATE", "SALES"},
      {"ORDERDATE", "SALES", "STATUS"},
      {"ORDERDATE", "REVENUE"},
      {"orderdate", "SALES"},
      {"SALES", "STATUS"},
      {"STATUS"} }

\* bom:  the buffer starts with the UTF-8 byte order mark
\* high: the buffer holds a byte >= 0x80 that is not part of valid UTF-8
Plain(u) == ~u.bom /\ ~u.high /\ u.columns = required_cols

Uploads ==
    { u \in [bom : BOOLEAN, high : BOOLEAN, columns : ColumnSets,
             rows : SeqsUpTo(RowPool, MaxRows)] :
        /\ Len(u.rows) > MaxSideRows => Plain(u)
        /\ (u.bom \/ u.high) => u.columns = required_cols }

----------------------------------------------------------------------------
\* Encoding detection and decoding (lines 17-23)

\* chardet.detect: a leading byte order mark decides the answer; a buffer of
\* 7-bit bytes is ascii; otherwise the probers may give up or name one of
\* their candidate encodings.
Detect(u) ==
    IF u.bom THEN {"UTF-8-SIG"}
    ELSE IF ~u.high THEN {"ascii"}
    ELSE {None, "johab", "Johab", "EUC-TW", "ISO-8859-1"}

\* str.lower on the encoding names that occur
Lower(name) ==
    CASE name = "UTF-8-SIG"  -> "utf-8-sig"
      [] name = "Johab"      -> "johab"
      [] name = "EUC-TW"     -> "euc-tw"
      [] name = "ISO-8859-1" -> "iso-8859-1"
      [] OTHER               -> name

\* line 19
ChooseEncoding(det) ==
    IF det # None /\ Lower(det) \notin Unreliable THEN det ELSE Fallback

\* The codec lookup and the decoding inside pd.read_csv: the exception it
\* raises, or None when the buffer decodes.
DecodeError(enc, u) ==
    CASE Lower(enc) = "iso-8859-1" -> None
      [] Lower(enc) = "ascii"      -> IF u.high \/ u.bom THEN "UnicodeDecodeError" ELSE None
      [] Lower(enc) = "utf-8-sig"  -> IF u.high THEN "UnicodeDecodeError" ELSE None
      [] Lower(enc) = "euc-tw"     -> "LookupError"
      [] OTHER                     -> IF u.high \/ u.bom THEN "UnicodeDecodeError" ELSE None

----------------------------------------------------------------------------
\* Date parsing and monthly aggregation (lines 32-38)

\* pd.to_datetime(..., errors='coerce')
ToDatetime(cell) ==
    IF /\ cell[1] >= 1
       /\ cell[2] \in 1..12
       /\ cell[3] >= 1
       /\ cell[3] <= DaysInMonth(cell[1], cell[2])
    THEN cell ELSE NaT

\* variant: the grouping key keeps the day of the order
ToMonthStart_KeepDay(date) == date

\* .dt.to_period('M').dt.to_timestamp()
ToMonthStart(date) == <<date[1], date[2], 1>>

\* lines 32-34 applied to the rows of df
RECURSIVE ParseDates(_)
ParseDates(rows) ==
    IF rows = <<>> THEN <<>>
    ELSE LET r == Head(rows)
             t == ToDatetime(r.ORDERDATE)
             rest == ParseDates(Tail(rows))
         IN  IF t = NaT THEN rest
             ELSE <<[ORDERDATE |-> t, SALES |-> r.SALES, Month |-> ToMonthStart(t)]>> \o rest

\* keys of a groupby come out sorted ascending
RECURSIVE SortDates(_)
SortDates(S) ==
    IF S = {} THEN <<>>
    ELSE LET lo == CHOOSE a \in S : \A b \in S \ {a} : DateLess(a, b)
         IN  <<lo>> \o SortDates(S \ {lo})

RECURSIVE GroupSum(_, _)
GroupSum(rows, key) ==
    IF rows = <<>> THEN 0
    ELSE (IF Head(rows).Month = key THEN Head(rows).SALES ELSE 0) + GroupSum(Tail(rows), key)

\* df.groupby('Month')['SALES'].sum() with Month as the index
GroupByMonth(rows) ==
    LET keys == SortDates({r.Month : r \in Range(rows)})
    IN  [i \in 1..Len(keys) |-> [Month |-> keys[i], SALES |-> GroupSum(rows, keys[i])]]

----------------------------------------------------------------------------
\* Forecast dates and values (lines 49-57)

\* variant: the month wraps around without carrying into the year
AddMonths_NoCarry(date, n) ==
    <<date[1], ((date[2] - 1 + n) % 12) + 1, date[3]>>

\* timestamp + pd.DateOffset(months=n): the month moves, the year carries,
\* the day is clipped to the length of the target month
AddMonths(date, n) ==
    LET m0 == (date[2] - 1) + n
        y  == date[1] + (m0 \div 12)
        m  == (m0 % 12) + 1
        d  == IF date[3] > DaysInMonth(y, m) THEN DaysInMonth(y, m) ELSE date[3]
    IN  <<y, m, d>>

\* the first month start that is not before `date`
RollToMonthStart(date) ==
    IF date[3] = 1 THEN date
    ELSE IF date[2] = 12 THEN <<date[1] + 1, 1, 1>> ELSE <<date[1], date[2] + 1, 1>>

NextMonthStart(date) ==
    IF date[2] = 12 THEN <<date[1] + 1, 1, 1>> ELSE <<date[1], date[2] + 1, 1>>

\* pd.date_range(start=start, periods=periods, freq='MS')
RECURSIVE DateRangeFrom(_, _)
DateRangeFrom(first, periods) ==
    IF periods = 0 THEN <<>>
    ELSE <<first>> \o DateRangeFrom(NextMonthStart(first), periods - 1)

DateRangeMS(start, periods) == DateRangeFrom(RollToMonthStart(start), periods)

\* line 51
ForecastIndex(ms) == DateRangeMS(AddMonths(ms[Len(ms)].Month, 1), forecast_steps)

MonthOrdinal(date) == date[1] * 12 + (date[2] - 1)

\* The index of monthly_sales carries no frequency.  statsmodels infers one
\* when the index has at least three dates that are evenly spaced; the
\* result is the spacing in months, or 0 when none can be inferred.
InferredStep(ms) ==
    IF Len(ms) < 3 THEN 0
    ELSE LET d == MonthOrdinal(ms[2].Month) - MonthOrdinal(ms[1].Month)
         IN  IF \A i \in 1..(Len(ms) - 1) :
                    MonthOrdinal(ms[i + 1].Month) - MonthOrdinal(ms[i].Month) = d
             THEN d ELSE 0

\* Labels of forecast.predicted_mean: dates continuing the inferred
\* frequency, or, when the date index was ignored, the integer positions
\* nobs .. nobs+steps-1 (written as 1-tuples).
PredictedLabels(ms) ==
    LET step == InferredStep(ms)
    IN  [i \in 1..forecast_steps |->
            IF step > 0 THEN AddMonths(ms[Len(ms)].Month, step * i)
            ELSE <<Len(ms) + i - 1>>]

\* forecast.predicted_mean for a model whose forecast starts at `base`
PredictedMean(ms, base) ==
    [index  |-> PredictedLabels(ms),
     values |-> [i \in 1..forecast_steps |-> base + 10 * i]]

\* forecast.conf_int(): column 0 is mean - q*se, column 1 is mean + q*se,
\* with the standard error growing over the horizon
ConfInt(mean, se) ==
    [i \in 1..forecast_steps |-> <<mean.values[i] - 2 * se * i, mean.values[i] + 2 * se * i>>]

\* pd.DataFrame({'Forecast': series}, index=index): the series is aligned to
\* the given index by label; labels it does not have become NaN
DataFrameForecast(series, index) ==
    [index    |-> index,
     Forecast |-> [i \in 1..Len(index) |->
                     IF \E j \in 1..Len(series.index) : series.index[j] = index[i]
                     THEN LET j == CHOOSE j \in 1..Len(series.index) : series.index[j] = index[i]
                          IN  <<series.values[j]>>
                     ELSE NaN]]

\* variant: the two columns of the interval are taken in the other order
PlotBand_Swapped(values, ci) ==
    [i \in 1..Len(ci) |-> [lower |-> ci[i][2], line |-> values.values[i], upper |-> ci[i][1]]]

\* lines 64-65: the forecast line and the filled area, per step
PlotBand(values, ci) ==
    [i \in 1..Len(ci) |-> [lower |-> ci[i][1], line |-> values.values[i], upper |-> ci[i][2]]]

\* a timestamp as to_csv writes it, YYYY-MM-DD, read as a number
FormatDate(date) == date[1] * 10000 + date[2] * 100 + date[3]

\* forecast_df.to_csv().encode('utf-8'): a header line, then one line per
\* row with the index label and the value; NaN is written as an empty field
ToCsv(frame) ==
    [header |-> <<"", "Forecast">>,
     lines  |-> [i \in 1..Len(frame.index) |-> <<FormatDate(frame.index[i]), frame.Forecast[i]>>]]

----------------------------------------------------------------------------
\* The script

NoFrame == [index |-> <<>>, Forecast |-> <<>>]
NoSeries == [index |-> <<>>, values |-> <<>>]
NoTable == [columns |-> {}, rows |-> <<>>]
NoMessage == [text |-> "", names |-> {}]

Init ==
    /\ pc = "start"
    /\ stage = "Idle"
    /\ executed = <<>>
    /\ namespace = {}
    /\ uploaded_file = <<>>
    /\ detected = None
    /\ encoding = None
    /\ df = NoTable
    /\ monthly_sales = <<>>
    /\ forecast_index = <<>>
    /\ forecast_values = NoSeries
    /\ conf_int = <<>>
    /\ forecast_df = NoFrame
    /\ band = <<>>
    /\ display = <<>>
    /\ message = NoMessage
    /\ uncaught = None
    /\ exported = <<>>

\* variant: the handler reports the error and the failed step is tried again
Raise_Retry(step, e) ==
    /\ executed' = Append(executed, step)
    /\ display' = Append(display, "error")
    /\ message' = [text |-> e, names |-> {}]
    /\ stage' = "Failed"
    /\ pc' = pc

\* A raise inside the try block: control moves to the handler of lines
\* 73-74, which shows the exception's message, and then on to line 81.
Raise(step, e) ==
    /\ executed' = Append(executed, step)
    /\ display' = Append(display, "error")
    /\ message' = [text |-> e, names |-> {}]
    /\ stage' = "Failed"
    /\ pc' = "export"

\* lines 12-14 and 76-77
FileUploader ==
    /\ pc = "start"
    /\ \E f \in {<<>>} \cup {<<u>> : u \in Uploads} :
         /\ uploaded_file' = f
         /\ IF f # <<>>
            THEN /\ stage' = "Uploaded"
                 /\ pc' = "detect"
                 /\ display' = display
            ELSE /\ stage' = stage
                 /\ pc' = "export"
                 /\ display' = Append(display, "info")
    /\ executed' = Append(executed, "file_uploader")
    /\ namespace' = namespace \cup {"uploaded_file"}
    /\ UNCHANGED <<detected, encoding, df, monthly_sales, forecast_index,
                   forecast_values, conf_int, forecast_df, band, message,
                   uncaught, exported>>

\* lines 17-20
DetectEncoding ==
    /\ pc = "detect"
    /\ \E det \in Detect(uploaded_file[1]) :
         /\ detected' = det
         /\ encoding' = ChooseEncoding(det)
    /\ executed' = Append(executed, "detect")
    /\ namespace' = namespace \cup {"raw_data", "detected", "encoding"}
    /\ pc' = "read_csv"
    /\ UNCHANGED <<stage, uploaded_file, df, monthly_sales, forecast_index,
                   forecast_values, conf_int, forecast_df, band, display,
                   message, uncaught, exported>>

\* line 23
ReadCsv ==
    /\ pc = "read_csv"
    /\ LET err == DecodeError(encoding, uploaded_file[1])
       IN  IF err = None
           THEN /\ df' = [columns |-> uploaded_file[1].columns,
                          rows |-> uploaded_file[1].rows]
                /\ namespace' = namespace \cup {"df"}
                /\ executed' = Append(executed, "read_csv")
                /\ stage' = "Decoded"
                /\ pc' = "check_cols"
                /\ UNCHANGED <<display, message>>
           ELSE /\ Raise("read_csv", err)
                /\ UNCHANGED <<df, namespace>>
    /\ UNCHANGED <<uploaded_file, detected, encoding, monthly_sales,
                   forecast_index, forecast_values, conf_int, forecast_df,
                   band, uncaught, exported>>

\* variant: the error is shown but the run is not stopped
CheckColumns_NoStop ==
    /\ pc = "check_cols"
    /\ IF required_cols \subseteq df.columns
       THEN /\ stage' = "Parsed"
            /\ UNCHANGED <<display, message>>
       ELSE /\ display' = Append(display, "error")
            /\ message' = [text |-> "Your file must include the columns",
                           names |-> required_cols]
            /\ stage' = "Failed"
    /\ pc' = "parse_dates"
    /\ executed' = Append(executed, "check_cols")
    /\ namespace' = namespace \cup {"required_cols"}
    /\ UNCHANGED <<uploaded_file, detected, encoding, df, monthly_sales,
                   forecast_index, forecast_values, conf_int, forecast_df,
                   band, uncaught, exported>>

\* lines 26-29; st.stop() ends the run: the exception it raises to unwind
\* the script is not an Exception and passes the handler of line 73
CheckColumns ==
    /\ pc = "check_cols"
    /\ IF required_cols \subseteq df.columns
       THEN /\ stage' = "Parsed"
            /\ pc' = "parse_dates"
            /\ UNCHANGED <<display, message>>
       ELSE /\ display' = Append(display, "error")
            /\ message' = [text |-> "Your file must include the columns",
                           names |-> required_cols]
            /\ stage' = "Failed"
            /\ pc' = "stopped"
    /\ executed' = Append(executed, "check_cols")
    /\ namespace' = namespace \cup {"required_cols"}
    /\ UNCHANGED <<uploaded_file, detected, encoding, df, monthly_sales,
                   forecast_index, forecast_values, conf_int, forecast_df,
                   band, uncaught, exported>>

\* lines 32-34
ParseDateColumn ==
    /\ pc = "parse_dates"
    /\ df' = [columns |-> df.columns \cup {"Month"}, rows |-> ParseDates(df.rows)]
    /\ executed' = Append(executed, "parse_dates")
    /\ pc' = "aggregate"
    /\ UNCHANGED <<stage, namespace, uploaded_file, detected, encoding,
                   monthly_sales, forecast_index, forecast_values, conf_int,
                   forecast_df, band, display, message, uncaught, exported>>

\* lines 37-38
Aggregate ==
    /\ pc = "aggregate"
    /\ monthly_sales' = GroupByMonth(df.rows)
    /\ namespace' = namespace \cup {"monthly_sales"}
    /\ executed' = Append(executed, "aggregate")
    /\ stage' = "Aggregated"
    /\ pc' = "show_history"
    /\ UNCHANGED <<uploaded_file, detected, encoding, df, forecast_index,
                   forecast_values, conf_int, forecast_df, band, display,
                   message, uncaught, exported>>

\* lines 40-41
ShowHistory ==
    /\ pc = "show_history"
    /\ display' = display \o <<"success", "line_chart">>
    /\ executed' = Append(executed, "show_history")
    /\ pc' = "fit"
    /\ UNCHANGED <<stage, namespace, uploaded_file, detected, encoding, df,
                   monthly_sales, forecast_index, forecast_values, conf_int,
                   forecast_df, band, message, uncaught, exported>>

\* lines 44-46: SARIMAX cannot be built on a series without observations;
\* on any other series the estimation may or may not succeed
Fit ==
    /\ pc = "fit"
    /\ \E ok \in BOOLEAN :
         IF monthly_sales # <<>> /\ ok
         THEN /\ namespace' = namespace \cup {"model", "results"}
              /\ executed' = Append(executed, "fit")
              /\ stage' = "Fitted"
              /\ pc' = "forecast"
              /\ UNCHANGED <<display, message>>
         ELSE /\ Raise("fit", IF monthly_sales = <<>> THEN "ValueError" ELSE "LinAlgError")
              /\ UNCHANGED namespace
    /\ UNCHANGED <<uploaded_file, detected, encoding, df, monthly_sales,
                   forecast_index, forecast_values, conf_int, forecast_df,
                   band, uncaught, exported>>

\* lines 49-53
Forecast ==
    /\ pc = "forecast"
    /\ \E base \in {100, 300}, se \in 0..MaxSe :
         /\ forecast_values' = PredictedMean(monthly_sales, base)
         /\ conf_int' = ConfInt(PredictedMean(monthly_sales, base), 5 * se)
    /\ forecast_index' = ForecastIndex(monthly_sales)
    /\ namespace' = namespace \cup {"forecast_steps", "forecast", "forecast_index",
                                    "forecast_values", "conf_int"}
    /\ executed' = Append(executed, "forecast")
    /\ stage' = "Forecasted"
    /\ pc' = "show_forecast"
    /\ UNCHANGED <<uploaded_file, detected, encoding, df, monthly_sales,
                   forecast_df, band, display, message, uncaught, exported>>

\* lines 56-58
ShowForecast ==
    /\ pc = "show_forecast"
    /\ forecast_df' = DataFrameForecast(forecast_values, forecast_index)
    /\ namespace' = namespace \cup {"forecast_df"}
    /\ display' = Append(display, "forecast_table")
    /\ executed' = Append(executed, "show_forecast")
    /\ pc' = "plot"
    /\ UNCHANGED <<stage, uploaded_file, detected, encoding, df, monthly_sales,
                   forecast_index, forecast_values, conf_int, band, message,
                   uncaught, exported>>

\* lines 61-71
Plot ==
    /\ pc = "plot"
    /\ band' = PlotBand(forecast_values, conf_int)
    /\ namespace' = namespace \cup {"fig", "ax"}
    /\ display' = Append(display, "forecast_plot")
    /\ executed' = Append(executed, "plot")
    /\ stage' = "Rendered"
    /\ pc' = "export"
    /\ UNCHANGED <<uploaded_file, detected, encoding, df, monthly_sales,
                   forecast_index, forecast_values, conf_int, forecast_df,
                   message, uncaught, exported>>

\* lines 81-86, outside the try block: evaluating the `data` argument reads
\* forecast_df; when the name is unbound the NameError leaves the script,
\* the framework prints the exception and the run is over
Export ==
    /\ pc = "export"
    /\ IF "forecast_df" \in namespace
       THEN /\ exported' = <<[file_name |-> "forecast_output.csv",
                              mime |-> "text/csv",
                              data |-> ToCsv(forecast_df)]>>
            /\ display' = Append(display, "download_button")
            /\ pc' = "done"
            /\ UNCHANGED <<uncaught, stage>>
       ELSE /\ uncaught' = "NameError"
            /\ display' = Append(display, "exception")
            /\ stage' = "Failed"
            /\ pc' = "crashed"
            /\ UNCHANGED exported
    /\ executed' = Append(executed, "export")
    /\ UNCHANGED <<namespace, uploaded_file, detected, encoding, df,
                   monthly_sales, forecast_index, forecast_values, conf_int,
                   forecast_df, band, message>>

\* The next interaction (a new upload) executes the script again in a fresh
\* namespace on a cleared page.
Rerun ==
    /\ pc \in {"done", "stopped", "crashed"}
    /\ pc' = "start"
    /\ stage' = "Idle"
    /\ executed' = <<>>
    /\ namespace' = {}
    /\ uploaded_file' = <<>>
    /\ detected' = None
    /\ encoding' = None
    /\ df' = NoTable
    /\ monthly_sales' = <<>>
    /\ forecast_index' = <<>>
    /\ forecast_values' = NoSeries
    /\ conf_int' = <<>>
    /\ forecast_df' = NoFrame
    /\ band' = <<>>
    /\ display' = <<>>
    /\ message' = NoMessage
    /\ uncaught' = None
    /\ exported' = <<>>

Next ==
    \/ FileUploader
    \/ DetectEncoding
    \/ ReadCsv
    \/ CheckColumns
    \/ ParseDateColumn
    \/ Aggregate
    \/ ShowHistory
    \/ Fit
    \/ Forecast
    \/ ShowForecast
    \/ Plot
    \/ Export
    \/ Rerun

Spec == Init /\ [][Next]_vars

----------------------------------------------------------------------------
\* Vocabulary of the properties

Done(step) == step \in Range(executed)

ResultElements == {"success", "line_chart", "forecast_table", "forecast_plot",
                   "download_button"}

StageOrder == <<"Idle", "Uploaded", "Decoded", "Parsed", "Aggregated", "Fitted",
                "Forecasted", "Rendered">>

StageAfter(st) ==
    IF \E i \in 1..(Len(StageOrder) - 1) : StageOrder[i] = st
    THEN StageOrder[(CHOOSE i \in 1..(Len(StageOrder) - 1) : StageOrder[i] = st) + 1]
    ELSE st

NoRepeat(s) == \A i, j \in DOMAIN s : i # j => s[i] # s[j]

\* the month start that lies n months after the month of `date`, by ordinal
MonthStartAfter(date, n) ==
    LET o == date[1] * 12 + (date[2] - 1) + n
    IN  <<o \div 12, (o % 12) + 1, 1>>

\* rows of the uploaded file whose ORDERDATE is a calendar date
IsCalendarDate(cell) ==
    /\ cell[1] >= 1
    /\ cell[2] \in 1..12
    /\ cell[3] \in 1..31
    /\ cell[2] \in {4, 6, 9, 11} => cell[3] <= 30
    /\ cell[2] = 2 => cell[3] <= (IF IsLeap(cell[1]) THEN 29 ELSE 28)

RECURSIVE SalesOf(_, _)
SalesOf(rows, I) ==
    IF I = {} THEN 0
    ELSE LET i == CHOOSE i \in I : TRUE
         IN  rows[i].SALES + SalesOf(rows, I \ {i})

RowsInMonth(rows, month) ==
    {i \in DOMAIN rows : /\ IsCalendarDate(rows[i].ORDERDATE)
                         /\ rows[i].ORDERDATE[1] = month[1]
                         /\ rows[i].ORDERDATE[2] = month[2]}

DatedRows(rows) == SelectSeq(rows, LAMBDA r : IsCalendarDate(r.ORDERDATE))

----------------------------------------------------------------------------
\* C1: when the parsed table lacks ORDERDATE or SALES, the run stops at the
\* column check with an error that names the missing columns; no later step
\* (date parsing, aggregation, fit, forecast, export) runs, and the check is
\* not repeated in that run.
C1_SchemaErrorHalts ==
    (Done("check_cols") /\ ~(required_cols \subseteq df.columns)) =>
        /\ pc = "stopped"
        /\ stage = "Failed"
        /\ executed = <<"file_uploader", "detect", "read_csv", "check_cols">>
        /\ display = <<"error">>
        /\ message.text # ""
        /\ (required_cols \ df.columns) \subseteq message.names
        /\ monthly_sales = <<>> /\ forecast_index = <<>>
        /\ exported = <<>>
        /\ uncaught = None

C1_Witness ==
    /\ pc = "stopped"
    /\ "SALES" \notin df.columns
    /\ "REVENUE" \in df.columns
    /\ "SALES" \in message.names

\* C2: when no row is left after the rows with unparseable dates are
\* dropped, the fit is not attempted on the empty monthly series.
C2_EmptySeriesNotFitted ==
    (Done("parse_dates") /\ df.rows = <<>>) => ~Done("fit")

\* C3: no failure leaves the script uncaught, whether or not a file was
\* uploaded; a run that failed is in Failed with the exception's message.
C3_NoFailureEscapes ==
    /\ uncaught = None
    /\ pc # "crashed"

\* C4: whenever the export is produced it is the forecast table of the
\* current run: 12 rows, indexed by the month starts that follow the last
\* month of the series, holding the 12 point forecasts unchanged.
C4_ExportIsForecastTable ==
    exported # <<>> =>
        /\ Done("forecast") /\ Done("show_forecast")
        /\ Len(exported[1].data.lines) = forecast_steps
        /\ \A i \in 1..forecast_steps :
             /\ exported[1].data.lines[i][1] =
                    FormatDate(MonthStartAfter(monthly_sales[Len(monthly_sales)].Month, i))
             /\ exported[1].data.lines[i][2] = <<forecast_values.values[i]>>

\* C5: in every run that reaches the forecast stage, forecast_index has
\* exactly 12 entries and entry i is the first day of the i-th calendar
\* month after the last month of the monthly series.
C5_ForecastDatesFollow ==
    Done("forecast") =>
        /\ Len(forecast_index) = 12
        /\ \A i \in 1..12 :
             forecast_index[i] = MonthStartAfter(monthly_sales[Len(monthly_sales)].Month, i)

C5_Witness ==
    /\ Done("forecast")
    /\ monthly_sales[Len(monthly_sales)].Month = <<2024, 12, 1>>
    /\ forecast_index[1] = <<2025, 1, 1>>
    /\ forecast_index[12] = <<2025, 12, 1>>

\* C6: the monthly series is strictly increasing by month without
\* duplicates, has exactly the months in which a row with a parseable date
\* falls, each with the sum of SALES of exactly those rows; rows with an
\* unparseable date change nothing.
C6_MonthlySums ==
    Done("aggregate") =>
        LET rows == uploaded_file[1].rows
        IN  /\ \A i \in 1..(Len(monthly_sales) - 1) :
                 monthly_sales[i].Month[1] * 12 + monthly_sales[i].Month[2]
                   < monthly_sales[i + 1].Month[1] * 12 + monthly_sales[i + 1].Month[2]
            /\ \A i \in DOMAIN monthly_sales :
                 /\ monthly_sales[i].Month[3] = 1
                 /\ RowsInMonth(rows, monthly_sales[i].Month) # {}
                 /\ monthly_sales[i].SALES = SalesOf(rows, RowsInMonth(rows, monthly_sales[i].Month))
            /\ \A k \in DOMAIN rows :
                 IsCalendarDate(rows[k].ORDERDATE) =>
                    \E i \in DOMAIN monthly_sales :
                       /\ monthly_sales[i].Month[1] = rows[k].ORDERDATE[1]
                       /\ monthly_sales[i].Month[2] = rows[k].ORDERDATE[2]
            /\ monthly_sales = GroupByMonth(ParseDates(DatedRows(rows)))
            /\ monthly_sales = GroupByMonth(ParseDates(
                   rows \o <<[ORDERDATE |-> <<2023, 1, 32>>, SALES |-> 999]>>))

C6_Witness ==
    /\ Done("aggregate")
    /\ uploaded_file[1].rows = << [ORDERDATE |-> <<2023, 1, 5>>,  SALES |-> 100],
                                  [ORDERDATE |-> <<2023, 1, 20>>, SALES |-> 50],
                                  [ORDERDATE |-> <<2023, 2, 1>>,  SALES |-> 200] >>
    /\ monthly_sales = << [Month |-> <<2023, 1, 1>>, SALES |-> 150],
                          [Month |-> <<2023, 2, 1>>, SALES |-> 200] >>

\* C7: the encoding is the detected one unless the detector gave none or
\* johab (any case), in which case it is ISO-8859-1; and decoding the upload
\* with the chosen encoding always succeeds.
C7_DecodingNeverFails ==
    /\ Done("detect") =>
          encoding = (IF detected = None \/ detected \in {"johab", "Johab"}
                      THEN "ISO-8859-1" ELSE detected)
    /\ Done("read_csv") => ("df" \in namespace /\ stage # "Failed")

C9_StagesInOrder ==
    [][pc' # "start" =>
         /\ stage' \in {stage, StageAfter(stage), "Failed"}
         /\ stage' = "Failed" =>
               \/ message'.text # "" /\ "error" \in Range(display')
               \/ uncaught' # None /\ "exception" \in Range(display')
         /\ stage = "Failed" =>
               /\ stage' = "Failed"
               /\ executed' = Append(executed, "export")
               /\ message' = message
               /\ Range(display') \ Range(display) \subseteq {"exception"}
         /\ (pc' = "crashed" \/ pc' = "stopped") => stage' = "Failed"
         /\ NoRepeat(executed')
         /\ (stage' # stage /\ stage' # "Failed") =>
               executed'[Len(executed')] \in
                  {"file_uploader", "read_csv", "check_cols", "aggregate", "fit",
                   "forecast", "plot"}
    ]_vars

C9_Witness ==
    /\ stage = "Rendered"
    /\ pc = "done"
    /\ executed = <<"file_uploader", "detect", "read_csv", "check_cols", "parse_dates",
                    "aggregate", "show_history", "fit", "forecast", "show_forecast",
                    "plot", "export">>

\* C10: a run that ended in an error has shown none of its results.
C10_NoPartialResults ==
    (stage = "Failed" \/ uncaught # None) => Range(display) \cap ResultElements = {}

====
